---- MODULE Spec2Model ----
(***************************************************************************)
(* Model of src/proto/media/file/info.rs (uefi-rs): in-place construction  *)
(* of the dynamically sized records FileInfo, FileSystemInfo and           *)
(* FileSystemVolumeLabel inside caller storage, and the unchecked          *)
(* reinterpretation of such a record (from_uefi).                          *)
(*                                                                         *)
(* Memory is modelled byte by byte: `storage` is the caller's buffer, a    *)
(* function from byte offsets 0..len-1 to byte values, and `addr` is its   *)
(* start address.  A record reference is a fat pointer [ptr, len]: the     *)
(* address of the record and the number of Char16 elements of its tail.    *)
(* Multi-byte values are little-endian, as on every UEFI target.           *)
(***************************************************************************)
EXTENDS Integers, Sequences, FiniteSets

VARIABLES ty, name, phase, addr, storage, prior, op, args, result, prev, view, text

vars == <<ty, name, phase, addr, storage, prior, op, args, result, prev, view, text>>

\* ---------------------------------------------------------------- bounds
\* longest name (in characters) the caller passes
MaxNameLen == 3
\* how many bytes past name_offset() the largest buffer extends beyond the
\* largest required size
MaxSlack == 1

\* ------------------------------------------------------------- constants
Types == {"FileInfo", "FileSystemInfo", "FileSystemVolumeLabel"}

\* characters a name is drawn from: U+0000, a character whose UCS-2 code
\* unit has two non-zero bytes, and two characters outside UCS-2
Chars == {0, 325, 65536, 128512}

\* byte value the caller's buffer holds before the call (0xAA)
FillByte == 170

\* start addresses of the caller's buffer: a multiple of 8, an odd address,
\* and a multiple of 2 that is not a multiple of 8
Addrs == {16, 17, 18}

RECURSIVE SeqsUpTo(_)
SeqsUpTo(n) ==
    IF n = 0 THEN {<<>>}
    ELSE LET shorter == SeqsUpTo(n - 1)
         IN  shorter \cup {Append(s, c) : s \in {x \in shorter : Len(x) = n - 1}, c \in Chars}

Names == SeqsUpTo(MaxNameLen)

\* ---------------------------------------------------------- type layout
\* mem::size_of::<Char16>()
SizeOfChar16 == 2

\* NUL_16
NUL_16 == 0

\* size of usize on the 64-bit UEFI targets
SizeOfUsize == 8

\* #[repr(C)] fields of each record type before the trailing `name`, as
\* <<field, size, alignment>>; Time is 16 bytes aligned to 4, FileAttribute
\* is a u64 bit set
Fields(T) ==
    CASE T = "FileInfo" ->
            << <<"size", 8, 8>>, <<"file_size", 8, 8>>, <<"physical_size", 8, 8>>,
               <<"create_time", 16, 4>>, <<"last_access_time", 16, 4>>,
               <<"modification_time", 16, 4>>, <<"attribute", 8, 8>> >>
      [] T = "FileSystemInfo" ->
            << <<"size", 8, 8>>, <<"read_only", 1, 1>>, <<"volume_size", 8, 8>>,
               <<"free_space", 8, 8>>, <<"block_size", 4, 4>> >>
      [] T = "FileSystemVolumeLabel" -> << >>

AlignUp(n, a) == ((n + a - 1) \div a) * a

RECURSIVE FieldEnd(_, _)
\* offset just past the i-th header field under repr(C)
FieldEnd(T, i) ==
    IF i = 0 THEN 0
    ELSE AlignUp(FieldEnd(T, i - 1), Fields(T)[i][3]) + Fields(T)[i][2]

FieldOffset(T, i) == AlignUp(FieldEnd(T, i - 1), Fields(T)[i][3])

FieldIndex(T, f) == CHOOSE i \in 1..Len(Fields(T)) : Fields(T)[i][1] = f

\* FileProtocolInfo::alignment
RECURSIVE MaxAlign(_, _)
MaxAlign(T, i) ==
    IF i = 0 THEN SizeOfChar16
    ELSE LET m == MaxAlign(T, i - 1)
             a == Fields(T)[i][3]
         IN  IF a > m THEN a ELSE m

alignment(T) == MaxAlign(T, Len(Fields(T)))

\* FileProtocolInfo::name_offset
name_offset(T) == AlignUp(FieldEnd(T, Len(Fields(T))), SizeOfChar16)

\* ---------------------------------------------------------------- memory
BufLen(buf) == Cardinality(DOMAIN buf)

NewBuffer(len) == [i \in 0..(len - 1) |-> FillByte]

StoreByte(buf, off, b) == [i \in DOMAIN buf |-> IF i = off THEN b ELSE buf[i]]

Pow256(i) == CASE i = 0 -> 1 [] i = 1 -> 256 [] i = 2 -> 65536

\* little-endian bytes of v (v < 2^24) in a field of w bytes
LEBytes(v, w) == [i \in 1..w |-> IF i <= 3 THEN (v \div Pow256(i - 1)) % 256 ELSE 0]

\* store of a w-byte integer field at byte offset off
StoreLE(buf, off, w, v) ==
    [i \in DOMAIN buf |->
        IF i >= off /\ i < off + w THEN LEBytes(v, w)[i - off + 1] ELSE buf[i]]

\* value read outside the buffer (undefined behaviour)
OutOfBounds == 0 - 1

LoadByte(buf, off) == IF off \in DOMAIN buf THEN buf[off] ELSE OutOfBounds

\* bytes of a w-byte field at byte offset off
LoadBytes(buf, off, w) == [i \in 1..w |-> LoadByte(buf, off + i - 1)]

\* a Char16 read at byte offset off
LoadChar16(buf, off) == buf[off] + 256 * buf[off + 1]

\* a Char16 (a 16-bit code unit) stored at byte offset off
StoreChar16(buf, off, c) == StoreLE(buf, off, SizeOfChar16, c)

\* ------------------------------------------------------- Char16 / CStr16
\* Char16::try_from(char): the code points up to 0xFFFF convert
TryIntoChar16(ch) ==
    IF ch <= 65535 THEN [ok |-> TRUE, v |-> ch % 65536] ELSE [ok |-> FALSE, v |-> 0]

RECURSIVE ScanFrom(_, _)
\* CStr16::from_ptr: the code units from byte offset off up to, not
\* including, the first NUL; running off the buffer is undefined behaviour
ScanFrom(buf, off) ==
    IF off < 0 \/ off + 1 >= BufLen(buf) THEN [ub |-> TRUE, s |-> <<>>]
    ELSE LET c == LoadChar16(buf, off)
         IN  IF c = NUL_16 THEN [ub |-> FALSE, s |-> <<>>]
             ELSE LET rest == ScanFrom(buf, off + SizeOfChar16)
                  IN  [ub |-> rest.ub, s |-> <<c>> \o rest.s]

\* -------------------------------------------------------------- results
NoInfo == [ptr |-> 0, len |-> 0]
NoResult == [kind |-> "none", val |-> 0, info |-> NoInfo]
NoText == [set |-> FALSE, ub |-> FALSE, s |-> <<>>]

\* the Err(FileInfoCreationError::InsufficientStorage(info_size)) value
InsufficientStorage(n) == [kind |-> "InsufficientStorage", val |-> n, info |-> NoInfo]

\* the Err(FileInfoCreationError::InvalidChar(ch)) value
InvalidChar(ch) == [kind |-> "InvalidChar", val |-> ch, info |-> NoInfo]

Ok(info) == [kind |-> "Ok", val |-> 0, info |-> info]

\* the failed assert_eq! of assert_aligned: the call unwinds, no value
Panic == [kind |-> "panic", val |-> 0, info |-> NoInfo]

\* ------------------------------------------------------ FileProtocolInfo
\* ptr_to_dst: the fat reference with data pointer ptr and length len
ptr_to_dst(ptr, len) == [ptr |-> ptr, len |-> len]

\* assert_aligned without its assertion
assert_aligned_unchecked(T, a) == TRUE

\* assert_aligned: TRUE when the assertion passes
assert_aligned(T, a) == a % alignment(T) = 0

name_length_ucs2(nm) == Len(nm) + 1

name_size(nm) == name_length_ucs2(nm) * SizeOfChar16

\* info_size that forgets the terminator
info_size_no_terminator(T, nm) == name_offset(T) + Len(nm) * SizeOfChar16

info_size(T, nm) == name_offset(T) + name_size(nm)

\* the capacity check with <= in place of <
storage_too_small_off_by_one(T, buf, nm) == BufLen(buf) <= info_size(T, nm)

\* storage.len() < info_size
storage_too_small(T, buf, nm) == BufLen(buf) < info_size(T, nm)

RECURSIVE write_name_low_byte(_, _, _, _)
\* the loop storing only the low byte of each code unit
write_name_low_byte(buf, off, nm, i) ==
    IF i > Len(nm) THEN [err |-> FALSE, ch |-> 0, buf |-> buf]
    ELSE LET c == TryIntoChar16(nm[i])
         IN  IF ~c.ok THEN [err |-> TRUE, ch |-> nm[i], buf |-> buf]
             ELSE write_name_low_byte(
                     StoreChar16(buf, off + (i - 1) * SizeOfChar16, c.v % 256),
                     off, nm, i + 1)

RECURSIVE write_name_last_bad(_, _, _, _)
\* the loop going on after a conversion failure and reporting the last one
write_name_last_bad(buf, off, nm, i) ==
    IF i > Len(nm) THEN [err |-> FALSE, ch |-> 0, buf |-> buf]
    ELSE LET c == TryIntoChar16(nm[i])
         IN  IF ~c.ok
             THEN LET rest == write_name_last_bad(buf, off, nm, i + 1)
                  IN  IF rest.err THEN rest ELSE [err |-> TRUE, ch |-> nm[i], buf |-> buf]
             ELSE write_name_last_bad(
                     StoreChar16(buf, off + (i - 1) * SizeOfChar16, c.v),
                     off, nm, i + 1)

RECURSIVE write_name_at_base(_, _, _, _)
\* the loop writing from the start of the record instead of its tail
write_name_at_base(buf, off, nm, i) ==
    IF i > Len(nm) THEN [err |-> FALSE, ch |-> 0, buf |-> buf]
    ELSE LET c == TryIntoChar16(nm[i])
         IN  IF ~c.ok THEN [err |-> TRUE, ch |-> nm[i], buf |-> buf]
             ELSE write_name_at_base(StoreChar16(buf, (i - 1) * SizeOfChar16, c.v),
                                     off, nm, i + 1)

RECURSIVE write_name(_, _, _, _)
\* the loop over info.name_mut().iter_mut().zip(name.chars()) from the i-th
\* character on: element i-1 of the tail, at byte offset off of the record
write_name(buf, off, nm, i) ==
    IF i > Len(nm) THEN [err |-> FALSE, ch |-> 0, buf |-> buf]
    ELSE LET c == TryIntoChar16(nm[i])
         IN  IF ~c.ok THEN [err |-> TRUE, ch |-> nm[i], buf |-> buf]
             ELSE write_name(StoreChar16(buf, off + (i - 1) * SizeOfChar16, c.v),
                             off, nm, i + 1)

\* the terminator left unwritten
write_terminator_skipped(buf, off, nm) == buf

\* info.name_mut()[name_length_ucs2 - 1] = NUL_16
write_terminator(buf, off, nm) ==
    StoreChar16(buf, off + (name_length_ucs2(nm) - 1) * SizeOfChar16, NUL_16)

\* new_uninitialized converting the characters before the capacity check
new_uninitialized_chars_first(T, a, buf, nm) ==
    IF ~assert_aligned(T, a) THEN [res |-> Panic, buf |-> buf]
    ELSE LET bad == {i \in 1..Len(nm) : ~TryIntoChar16(nm[i]).ok}
         IN  IF bad # {}
             THEN [res |-> InvalidChar(nm[CHOOSE i \in bad : \A j \in bad : i <= j]),
                   buf |-> buf]
             ELSE IF storage_too_small(T, buf, nm)
                  THEN [res |-> InsufficientStorage(info_size(T, nm)), buf |-> buf]
                  ELSE [res |-> Ok(ptr_to_dst(a, name_length_ucs2(nm))),
                        buf |-> write_terminator(
                                   write_name(buf, name_offset(T), nm, 1).buf,
                                   name_offset(T), nm)]

\* new_uninitialized on the buffer buf at address a: the returned value and
\* the buffer after the call
new_uninitialized(T, a, buf, nm) ==
    IF ~assert_aligned(T, a) THEN [res |-> Panic, buf |-> buf]
    ELSE IF storage_too_small(T, buf, nm)
         THEN [res |-> InsufficientStorage(info_size(T, nm)), buf |-> buf]
    ELSE LET info == ptr_to_dst(a, name_length_ucs2(nm))
             w == write_name(buf, name_offset(T), nm, 1)
         IN  IF w.err THEN [res |-> InvalidChar(w.ch), buf |-> w.buf]
             ELSE [res |-> Ok(info), buf |-> write_terminator(w.buf, name_offset(T), nm)]

\* name(): the tail of the record info, as its byte offset in the buffer
\* at address a and its element count
name_slice(T, a, info) == [off |-> info.ptr - a + name_offset(T), len |-> info.len]

\* name_str: CStr16::from_ptr(&self.name()[0])
name_str(T, a, buf, info) ==
    LET n == name_slice(T, a, info)
    IN  IF n.len = 0 THEN [set |-> TRUE, ub |-> TRUE, s |-> <<>>]
        ELSE LET r == ScanFrom(buf, n.off)
             IN  [set |-> TRUE, ub |-> r.ub, s |-> r.s]

\* from_uefi building the reference on the name pointer
from_uefi_on_name_ptr(T, a, buf, ptr) ==
    LET name_ptr == ptr + name_offset(T)
        nm == ScanFrom(buf, name_ptr - a)
        name_len == Len(nm.s) + 1
    IN  ptr_to_dst(name_ptr, name_len)

\* from_uefi on the raw pointer ptr into the buffer at address a
from_uefi(T, a, buf, ptr) ==
    LET name_ptr == ptr + name_offset(T)
        nm == ScanFrom(buf, name_ptr - a)
        name_len == Len(nm.s) + 1
    IN  ptr_to_dst(ptr, name_len)

\* ------------------------------------------------- concrete constructors
\* mem::size_of_val(&info) with info: &mut Self, the size of a fat reference
size_of_val_ref_info == 2 * SizeOfUsize

StoreField(T, buf, f, v) ==
    LET i == FieldIndex(T, f)
    IN  StoreLE(buf, FieldOffset(T, i), Fields(T)[i][2], v)

LoadField(T, buf, off, f) ==
    LET i == FieldIndex(T, f)
    IN  LoadBytes(buf, off + FieldOffset(T, i), Fields(T)[i][2])

\* the values of all header fields read through the reference info
Header(T, a, buf, info) ==
    [i \in 1..Len(Fields(T)) |-> LoadField(T, buf, info.ptr - a, Fields(T)[i][1])]

\* FileInfo::new; h = <<file_size, physical_size, create_time,
\* last_access_time, modification_time, attribute>>
FileInfo_new(a, buf, h, nm) ==
    LET T == "FileInfo"
        r == new_uninitialized(T, a, buf, nm)
    IN  IF r.res.kind # "Ok" THEN r
        ELSE LET b1 == StoreField(T, r.buf, "size", size_of_val_ref_info)
                 b2 == StoreField(T, b1, "file_size", h[1])
                 b3 == StoreField(T, b2, "physical_size", h[2])
                 b4 == StoreField(T, b3, "create_time", h[3])
                 b5 == StoreField(T, b4, "last_access_time", h[4])
                 b6 == StoreField(T, b5, "modification_time", h[5])
                 b7 == StoreField(T, b6, "attribute", h[6])
             IN  [res |-> r.res, buf |-> b7]

\* FileSystemInfo::new; h = <<read_only, volume_size, free_space, block_size>>
FileSystemInfo_new(a, buf, h, nm) ==
    LET T == "FileSystemInfo"
        r == new_uninitialized(T, a, buf, nm)
    IN  IF r.res.kind # "Ok" THEN r
        ELSE LET b1 == StoreField(T, r.buf, "size", size_of_val_ref_info)
                 b2 == StoreField(T, b1, "read_only", h[1])
                 b3 == StoreField(T, b2, "volume_size", h[2])
                 b4 == StoreField(T, b3, "free_space", h[3])
                 b5 == StoreField(T, b4, "block_size", h[4])
             IN  [res |-> r.res, buf |-> b5]

\* FileSystemVolumeLabel::new
FileSystemVolumeLabel_new(a, buf, nm) ==
    new_uninitialized("FileSystemVolumeLabel", a, buf, nm)

\* ------------------------------------------------------------ the caller
\* header values passed to FileInfo::new
FileInfoArgs == {<<1, 2, 3, 4, 5, 6>>, <<70000, 7, 7, 7, 7, 7>>}

\* header values passed to FileSystemInfo::new
FileSystemInfoArgs == {<<1, 2, 3, 4>>, <<0, 70000, 9, 9>>}

\* buffer lengths the caller tries for a record of type T
Lens(T) == {0} \cup
    {name_offset(T) + k : k \in 0..((MaxNameLen + 1) * SizeOfChar16 + MaxSlack)}

Init ==
    /\ ty \in Types
    /\ name \in Names
    /\ phase = "start"
    /\ addr = 0
    /\ storage = NewBuffer(0)
    /\ prior = NewBuffer(0)
    /\ op = "none"
    /\ args = <<>>
    /\ result = NoResult
    /\ prev = NoResult
    /\ view = NoInfo
    /\ text = NoText

NewStorage(a, len) ==
    /\ addr' = a
    /\ storage' = NewBuffer(len)
    /\ prior' = NewBuffer(len)
    /\ phase' = "allocated"
    /\ op' = "none"
    /\ args' = <<>>
    /\ result' = NoResult
    /\ view' = NoInfo
    /\ text' = NoText
    /\ UNCHANGED <<ty, name>>

\* the caller obtains a buffer for the first call
Allocate ==
    /\ phase = "start"
    /\ \E a \in Addrs, len \in Lens(ty) : NewStorage(a, len)
    /\ prev' = NoResult

\* the caller answers InsufficientStorage by obtaining another buffer
Retry ==
    /\ phase = "returned"
    /\ result.kind = "InsufficientStorage"
    /\ \E a \in Addrs, len \in Lens(ty) : NewStorage(a, len)
    /\ prev' = result

Return(o, h, r) ==
    /\ op' = o
    /\ args' = h
    /\ result' = r.res
    /\ storage' = r.buf
    /\ phase' = "returned"
    /\ UNCHANGED <<ty, name, addr, prior, prev, view, text>>

CallNewUninitialized ==
    /\ phase = "allocated"
    /\ Return("new_uninitialized", <<>>, new_uninitialized(ty, addr, storage, name))

CallFileInfoNew ==
    /\ phase = "allocated"
    /\ ty = "FileInfo"
    /\ \E h \in FileInfoArgs : Return("new", h, FileInfo_new(addr, storage, h, name))

CallFileSystemInfoNew ==
    /\ phase = "allocated"
    /\ ty = "FileSystemInfo"
    /\ \E h \in FileSystemInfoArgs :
          Return("new", h, FileSystemInfo_new(addr, storage, h, name))

CallFileSystemVolumeLabelNew ==
    /\ phase = "allocated"
    /\ ty = "FileSystemVolumeLabel"
    /\ Return("new", <<>>, FileSystemVolumeLabel_new(addr, storage, name))

\* name_str on the record the constructor returned
NameStr ==
    /\ phase = "returned"
    /\ result.kind = "Ok"
    /\ ~text.set
    /\ text' = name_str(ty, addr, storage, result.info)
    /\ UNCHANGED <<ty, name, phase, addr, storage, prior, op, args, result, prev, view>>

\* from_uefi on the start address of the buffer holding the record
FromUefi ==
    /\ phase = "returned"
    /\ result.kind = "Ok"
    /\ view = NoInfo
    /\ view' = from_uefi(ty, addr, storage, addr)
    /\ UNCHANGED <<ty, name, phase, addr, storage, prior, op, args, result, prev, text>>

Next ==
    \/ Allocate
    \/ Retry
    \/ CallNewUninitialized
    \/ CallFileInfoNew
    \/ CallFileSystemInfoNew
    \/ CallFileSystemVolumeLabelNew
    \/ NameStr
    \/ FromUefi

Spec == Init /\ [][Next]_vars


\* ---------------------------------------------------------------- claims
Called == phase = "returned"

Aligned == addr % alignment(ty) = 0

\* tail_offset() + (n + 1) * 2 for the name of the call
RequiredSize == name_offset(ty) + (Len(name) + 1) * 2

Unrepresentable(c) == c > 65535

Representable == \A i \in 1..Len(name) : ~Unrepresentable(name[i])

FirstBadIndex ==
    CHOOSE i \in 1..Len(name) :
        Unrepresentable(name[i]) /\ \A j \in 1..(i - 1) : ~Unrepresentable(name[j])

\* the name up to its first U+0000
NameBeforeNul ==
    LET nuls == {i \in 1..Len(name) : name[i] = 0}
    IN  IF nuls = {} THEN name
        ELSE SubSeq(name, 1, (CHOOSE i \in nuls : \A j \in nuls : i <= j) - 1)

Built == Called /\ op = "new" /\ result.kind = "Ok"

\* C1: after a successful FileInfo::new or FileSystemInfo::new the `size`
\* header field of the record equals name_offset() + (n + 1) * 2, the byte
\* footprint of the header and the tail.
C1_SizeIsFootprint ==
    (Built /\ ty \in {"FileInfo", "FileSystemInfo"})
        => LoadField(ty, storage, result.info.ptr - addr, "size") = LEBytes(RequiredSize, 8)

C3_SucceedsIffLargeEnough ==
    (Called /\ Aligned /\ Representable) =>
        /\ (result.kind = "Ok" <=> BufLen(storage) >= RequiredSize)
        /\ (BufLen(storage) < RequiredSize => result = InsufficientStorage(RequiredSize))
        /\ ((ty = "FileSystemVolumeLabel" /\ Len(name) = 3) =>
               /\ name_offset(ty) = 0
               /\ (BufLen(storage) = 7 => result = InsufficientStorage(8))
               /\ (BufLen(storage) = 8 => result.kind = "Ok"))

C3_Witness ==
    /\ Called /\ Aligned /\ Representable
    /\ ty = "FileSystemVolumeLabel" /\ Len(name) = 3
    /\ BufLen(storage) = 7
    /\ result = InsufficientStorage(8)

\* C4 as stated: name_str on the record new_uninitialized returned yields
\* the name that was passed, also when it contains U+0000.
C4_NameRoundTrip ==
    (text.set /\ op = "new_uninitialized") => (~text.ub /\ text.s = name)

\* C4 amended: name_str on the record new_uninitialized returned yields the
\* name up to, not including, its first U+0000: the whole name when it
\* holds no U+0000.
C4_NameRoundTripUpToNul ==
    (text.set /\ op = "new_uninitialized") => (~text.ub /\ text.s = NameBeforeNul)

C4_Witness ==
    /\ text.set /\ op = "new_uninitialized"
    /\ Len(name) = 2 /\ name[1] > 255 /\ name[2] > 255
    /\ text.s = name

\* C5: from_uefi on the start address of the buffer of a record built by one
\* of the three `new` constructors yields a reference through which every
\* header field and the name text read the same as through the constructed
\* record.
C5_FromUefiRoundTrip ==
    (Built /\ view # NoInfo) =>
        /\ Header(ty, addr, storage, view) = Header(ty, addr, storage, result.info)
        /\ name_str(ty, addr, storage, view) = name_str(ty, addr, storage, result.info)
        /\ ~name_str(ty, addr, storage, view).ub

C5_Witness ==
    /\ Built /\ view # NoInfo
    /\ ty = "FileInfo" /\ Len(name) = 2 /\ \A i \in 1..2 : name[i] = 325
    /\ args[1] = 70000
    /\ name_str(ty, addr, storage, view).s = name

\* C6: on an aligned buffer of at least RequiredSize bytes a name holding a
\* character above 0xFFFF fails with InvalidChar of the first such character
\* in name order, and no record reference is returned.
C6_FirstInvalidChar ==
    (Called /\ Aligned /\ BufLen(storage) >= RequiredSize /\ ~Representable) =>
        /\ result.kind = "InvalidChar"
        /\ result.val = name[FirstBadIndex]
        /\ result.info = NoInfo

C6_Witness ==
    /\ Called /\ Aligned /\ BufLen(storage) >= RequiredSize
    /\ Len(name) = 3 /\ ~Unrepresentable(name[1])
    /\ Unrepresentable(name[2]) /\ Unrepresentable(name[3]) /\ name[2] # name[3]
    /\ result = InvalidChar(name[2])

C8_TailShape ==
    (Called /\ result.kind = "Ok") =>
        LET t == name_slice(ty, addr, result.info)
        IN  /\ t.len = Len(name) + 1
            /\ t.off = name_offset(ty)
            /\ LoadChar16(storage, t.off + Len(name) * 2) = 0
            /\ \A i \in 1..Len(name) : LoadChar16(storage, t.off + (i - 1) * 2) = name[i]

C8_Witness ==
    /\ Called /\ result.kind = "Ok"
    /\ ty = "FileSystemInfo"
    /\ Len(name) = 3 /\ name[1] = 325 /\ name[2] = 0 /\ name[3] = 325
    /\ result.info.len = 4

\* C9: alignment is checked first, then capacity, then the characters: an
\* aligned buffer shorter than RequiredSize fails with
\* InsufficientStorage(RequiredSize) also when the name holds an
\* unrepresentable character, and InvalidChar is returned only for an
\* aligned buffer of at least RequiredSize bytes.
C9_CheckOrder ==
    Called =>
        /\ ((Aligned /\ BufLen(storage) < RequiredSize)
               => result = InsufficientStorage(RequiredSize))
        /\ (result.kind = "InvalidChar" => (Aligned /\ BufLen(storage) >= RequiredSize))
        /\ (~Aligned => result.kind \notin {"InsufficientStorage", "InvalidChar", "Ok"})

C9_Witness ==
    /\ Called /\ Aligned /\ ~Representable
    /\ BufLen(storage) < RequiredSize /\ BufLen(storage) > name_offset(ty)
    /\ result = InsufficientStorage(RequiredSize)

\* C10: new_uninitialized writes no byte outside
\* [name_offset(), RequiredSize): the header bytes and the bytes from
\* RequiredSize on keep their values; after a panic or InsufficientStorage
\* no byte has changed; after InvalidChar only tail elements before the
\* offending character may have changed, the terminator position has not.
C10_Frame ==
    (Called /\ op = "new_uninitialized") =>
        /\ DOMAIN storage = DOMAIN prior
        /\ \A i \in DOMAIN storage :
              (i < name_offset(ty) \/ i >= RequiredSize) => storage[i] = prior[i]
        /\ (result.kind \in {"panic", "InsufficientStorage"} => storage = prior)
        /\ (result.kind = "InvalidChar" =>
               \A i \in DOMAIN storage :
                  i >= name_offset(ty) + (FirstBadIndex - 1) * 2 => storage[i] = prior[i])

C10_Witness ==
    /\ Called /\ op = "new_uninitialized"
    /\ ty = "FileInfo" /\ BufLen(storage) > RequiredSize
    /\ result.kind = "InvalidChar" /\ FirstBadIndex = 3
    /\ storage # prior
    /\ LoadChar16(storage, name_offset(ty) + Len(name) * 2) = FillByte * 257

TypeOK ==
    /\ ty \in Types
    /\ name \in Names
    /\ phase \in {"start", "allocated", "returned"}
    /\ result.kind \in {"none", "Ok", "InsufficientStorage", "InvalidChar", "panic"}
====
